---------------------------- MODULE Spec2Model ----------------------------
(***************************************************************************)
(* Capacity planner (src/main.py): the Streamlit script that turns the     *)
(* sidebar assumptions into achievable throughput, required parallelism,   *)
(* API rate figures and a synthetic per-minute traffic curve.              *)
(*                                                                         *)
(* Every quantity the script computes with "/" or with a float operand is  *)
(* a Python float, i.e. an IEEE-754 binary64 number.  The ceilings and the *)
(* ">=" of the script are decided by the rounding of those operations, so  *)
(* the model carries binary64 values exactly: a float is a record          *)
(*    [sg |-> sign, m |-> 53-bit significand, e |-> exponent of its lsb]   *)
(* whose value is sg * m * 2^e.  TLC integers are 32 bits wide, so the     *)
(* significand is a little-endian sequence of 14-bit limbs.                *)
(***************************************************************************)
EXTENDS Integers, Sequences, FiniteSets, TLC

(***************************************************************************)
(* Natural numbers of arbitrary size: little-endian limb sequences with no *)
(* leading zero limb (<<>> is 0).                                          *)
(***************************************************************************)
LimbBits == 14
Base == 2^LimbBits
MantBits == 53

Limb(a, i) == IF i <= Len(a) THEN a[i] ELSE 0

Max2(x, y) == IF x >= y THEN x ELSE y
Min2(x, y) == IF x <= y THEN x ELSE y

RECURSIVE BNorm(_)
BNorm(a) ==
    IF Len(a) = 0 THEN a
    ELSE IF a[Len(a)] = 0 THEN BNorm(SubSeq(a, 1, Len(a) - 1))
    ELSE a

RECURSIVE BFromInt(_)
BFromInt(n) == IF n = 0 THEN <<>> ELSE <<n % Base>> \o BFromInt(n \div Base)

RECURSIVE BToInt(_)
BToInt(a) == IF Len(a) = 0 THEN 0 ELSE a[1] + Base * BToInt(Tail(a))

RECURSIVE BCmpFrom(_, _, _)
BCmpFrom(a, b, i) ==
    IF i = 0 THEN 0
    ELSE IF a[i] > b[i] THEN 1
    ELSE IF a[i] < b[i] THEN -1
    ELSE BCmpFrom(a, b, i - 1)

\* -1, 0, 1 as a < b, a = b, a > b
BCmp(a, b) ==
    IF Len(a) > Len(b) THEN 1
    ELSE IF Len(a) < Len(b) THEN -1
    ELSE BCmpFrom(a, b, Len(a))

RECURSIVE BAddC(_, _, _, _)
BAddC(a, b, i, c) ==
    IF i > Len(a) /\ i > Len(b)
    THEN IF c = 0 THEN <<>> ELSE <<c>>
    ELSE LET s == Limb(a, i) + Limb(b, i) + c
         IN  <<s % Base>> \o BAddC(a, b, i + 1, s \div Base)

BAdd(a, b) == BAddC(a, b, 1, 0)

RECURSIVE BSubC(_, _, _, _)
BSubC(a, b, i, c) ==
    IF i > Len(a) THEN <<>>
    ELSE LET s == a[i] - Limb(b, i) - c
         IN  IF s < 0 THEN <<s + Base>> \o BSubC(a, b, i + 1, 1)
             ELSE <<s>> \o BSubC(a, b, i + 1, 0)

\* a - b for a >= b
BSub(a, b) == BNorm(BSubC(a, b, 1, 0))

\* a * k for a small factor 0 <= k <= Base
RECURSIVE BMulSmallC(_, _, _, _)
BMulSmallC(a, k, i, c) ==
    IF i > Len(a)
    THEN IF c = 0 THEN <<>> ELSE <<c>>
    ELSE LET s == a[i] * k + c
         IN  <<s % Base>> \o BMulSmallC(a, k, i + 1, s \div Base)

BMulSmall(a, k) == IF k = 0 THEN <<>> ELSE BMulSmallC(a, k, 1, 0)

Zeros(n) == [i \in 1..n |-> 0]

\* the product of two four-limb numbers (two significands), column by
\* column: a column holds at most four limb products, below 2^30
BMul(a, b) ==
    LET c1 == a[1] * b[1]
        c2 == a[1] * b[2] + a[2] * b[1] + c1 \div Base
        c3 == a[1] * b[3] + a[2] * b[2] + a[3] * b[1] + c2 \div Base
        c4 == a[1] * b[4] + a[2] * b[3] + a[3] * b[2] + a[4] * b[1] + c3 \div Base
        c5 == a[2] * b[4] + a[3] * b[3] + a[4] * b[2] + c4 \div Base
        c6 == a[3] * b[4] + a[4] * b[3] + c5 \div Base
        c7 == a[4] * b[4] + c6 \div Base
    IN  BNorm(<<c1 % Base, c2 % Base, c3 % Base, c4 % Base, c5 % Base, c6 % Base,
                c7 % Base, c7 \div Base>>)

\* a * n for a natural n < 2^28
BMulInt(a, n) ==
    BAdd(BMulSmall(a, n % Base), IF n < Base THEN <<>> ELSE <<0>> \o BMulSmall(a, n \div Base))

\* a * 2^k
BShl(a, k) ==
    IF Len(a) = 0 THEN a
    ELSE Zeros(k \div LimbBits) \o BMulSmall(a, 2^(k % LimbBits))

RECURSIVE BShrBits(_, _, _)
BShrBits(a, r, i) ==
    IF i > Len(a) THEN <<>>
    ELSE <<(a[i] \div 2^r) + (Limb(a, i + 1) % 2^r) * 2^(LimbBits - r)>>
         \o BShrBits(a, r, i + 1)

\* floor(a / 2^k)
BShr(a, k) ==
    LET q == k \div LimbBits
    IN  IF q >= Len(a) THEN <<>>
        ELSE BNorm(BShrBits(SubSeq(a, q + 1, Len(a)), k % LimbBits, 1))

\* a mod 2^k
BLow(a, k) ==
    LET q == k \div LimbBits
        r == k % LimbBits
    IN  IF q >= Len(a) THEN a
        ELSE BNorm(SubSeq(a, 1, q) \o <<a[q + 1] % 2^r>>)

IntBitLen(x) == CHOOSE k \in 0..31 : (k = 0 \/ x >= 2^(k - 1)) /\ (k = 31 \/ x < 2^k)

\* number of bits of a (0 for 0)
BBitLen(a) ==
    IF Len(a) = 0 THEN 0
    ELSE (Len(a) - 1) * LimbBits + IntBitLen(a[Len(a)])

BIsOdd(a) == Len(a) > 0 /\ a[1] % 2 = 1

BOne == <<1>>

(***************************************************************************)
(* Python floats (IEEE-754 binary64, round to nearest, ties to even).      *)
(* A nonzero float is [sg, m, e] with 2^52 <= m < 2^53 and value           *)
(* sg * m * 2^e; zero is FZero.  The script's values stay far inside the   *)
(* normal range, so the exponent is not capped (no overflow, no            *)
(* subnormals), and -0.0 is not told apart from 0.0.                       *)
(***************************************************************************)
FZero == [sg |-> 0, m |-> <<>>, e |-> 0]

\* An operation applied to its operands' values: the operands are
\* evaluated first, once each, as Python evaluates them.
Apply1(Op(_), a) == CHOOSE r \in {Op(x) : x \in {a}} : TRUE

Apply2(Op(_, _), a, b) == CHOOSE r \in {Op(x, y) : x \in {a}, y \in {b}} : TRUE

\* sg * n * 2^e for a natural n (a limb sequence), rounded to 53 bits;
\* sticky says that the exact value lies strictly above n * 2^e (in
\* magnitude) by less than one unit of n.
FRound(sg, n, e, sticky) ==
    LET len == BBitLen(n)
        k   == len - MantBits
    IN  IF len = 0 THEN FZero
        ELSE IF k <= 0 THEN [sg |-> sg, m |-> BShl(n, -k), e |-> e + k]
        ELSE LET q    == BShr(n, k)
                 rem  == BLow(n, k)
                 half == BShl(BOne, k - 1)
                 c    == BCmp(rem, half)
                 up   == \/ c = 1
                         \/ c = 0 /\ (sticky \/ BIsOdd(q))
                 q1   == IF up THEN BAdd(q, BOne) ELSE q
             IN  IF BBitLen(q1) > MantBits
                 THEN [sg |-> sg, m |-> BShr(q1, 1), e |-> e + k + 1]
                 ELSE [sg |-> sg, m |-> q1, e |-> e + k]

\* float(n) for a Python int n
FInt(n) ==
    IF n = 0 THEN FZero
    ELSE FRound(IF n < 0 THEN -1 ELSE 1, BFromInt(IF n < 0 THEN -n ELSE n), 0, FALSE)

FNeg(a) == [a EXCEPT !.sg = -a.sg]

\* compare magnitudes of two nonzero floats
FCmpMag(a, b) ==
    IF a.e > b.e THEN 1
    ELSE IF a.e < b.e THEN -1
    ELSE BCmp(a.m, b.m)

FCmpSigned(a, b) ==
    IF a.sg # b.sg THEN (IF a.sg > b.sg THEN 1 ELSE -1)
    ELSE IF a.sg = 0 THEN 0
    ELSE a.sg * FCmpMag(a, b)

\* -1, 0, 1 as a < b, a = b, a > b
FCmp(a, b) == Apply2(FCmpSigned, a, b)

FLe(a, b) == FCmp(a, b) <= 0
FLt(a, b) == FCmp(a, b) < 0
FGe(a, b) == FCmp(a, b) >= 0
FGt(a, b) == FCmp(a, b) > 0

FMulRounded(a, b) ==
    IF a.sg = 0 \/ b.sg = 0 THEN FZero
    ELSE FRound(a.sg * b.sg, BMul(a.m, b.m), a.e + b.e, FALSE)

\* a * b
FMul(a, b) == Apply2(FMulRounded, a, b)

\* Long division in base 2^14.  r < d are limb sequences, d has 53 bits
\* and dt is its leading 16 bits; i more quotient limbs are wanted and q
\* holds those found so far.  The next limb is floor(r * 2^14 / d): it is
\* estimated from the leading 30 bits of r * 2^14 and from dt + 1, which
\* never overshoots and falls short by at most 2, and then corrected.
\* <<quotient, remainder>>.
RECURSIVE DivLimbs(_, _, _, _, _)
DivLimbs(r, d, dt, i, q) ==
    LET rt   == Limb(r, 4) * 2^19 + Limb(r, 3) * 2^5 + Limb(r, 2) \div 2^9
        qh   == rt \div (dt + 1)
        rs   == IF Len(r) = 0 THEN r ELSE <<0>> \o r
        r0   == BSub(rs, BMulSmall(d, qh))
        fix1 == BCmp(r0, d) >= 0
        r1   == IF fix1 THEN BSub(r0, d) ELSE r0
        fix2 == BCmp(r1, d) >= 0
        r2   == IF fix2 THEN BSub(r1, d) ELSE r1
        dg   == qh + (IF fix1 THEN 1 ELSE 0) + (IF fix2 THEN 1 ELSE 0)
    IN  IF i = 0 THEN <<q, r>>
        ELSE DivLimbs(r2, d, dt, i - 1, <<dg>> \o q)

\* the quotient of the significands to 57 or 58 bits and
\* whether anything is left over, rounded once
FDivRounded(a, b) ==
    IF a.sg = 0 THEN FZero
    ELSE LET ge == BCmp(a.m, b.m) >= 0
             r  == IF ge THEN BSub(a.m, b.m) ELSE a.m
             dt == b.m[4] * 2^5 + b.m[3] \div 2^9
             qr == DivLimbs(r, b.m, dt, 4, IF ge THEN BOne ELSE <<>>)
         IN  FRound(a.sg * b.sg, BNorm(qr[1]), a.e - b.e - 4 * LimbBits,
                    Len(qr[2]) > 0)

\* a / b for b # 0
FDiv(a, b) == Apply2(FDivRounded, a, b)

\* an addend more than 64 binary places below the other cannot change the
\* rounded sum
FAddRounded(a, b) ==
    IF a.sg = 0 THEN b
    ELSE IF b.sg = 0 THEN a
    ELSE IF a.e - b.e > 64 THEN a
    ELSE IF b.e - a.e > 64 THEN b
    ELSE LET e  == Min2(a.e, b.e)
             x  == BShl(a.m, a.e - e)
             y  == BShl(b.m, b.e - e)
             c  == BCmp(x, y)
         IN  IF a.sg = b.sg THEN FRound(a.sg, BAdd(x, y), e, FALSE)
             ELSE IF c = 0 THEN FZero
             ELSE IF c > 0 THEN FRound(a.sg, BSub(x, y), e, FALSE)
             ELSE FRound(b.sg, BSub(y, x), e, FALSE)

\* a + b
FAdd(a, b) == Apply2(FAddRounded, a, b)

FCeilOf(a) ==
    IF a.sg = 0 THEN 0
    ELSE IF a.e >= 0 THEN a.sg * BToInt(BShl(a.m, a.e))
    ELSE LET fl   == BToInt(BShr(a.m, -a.e))
             frac == Len(BLow(a.m, -a.e)) > 0
         IN  IF a.sg > 0 THEN (IF frac THEN fl + 1 ELSE fl)
             ELSE -fl

\* math.ceil(a) as an integer, for |a| < 2^31
FCeil(a) == Apply1(FCeilOf, a)

FNearestEven(a) ==
    IF a.sg = 0 THEN 0
    ELSE IF a.e >= 0 THEN a.sg * BToInt(BShl(a.m, a.e))
    ELSE LET fl   == BToInt(BShr(a.m, -a.e))
             rem  == BLow(a.m, -a.e)
             c    == BCmp(rem, BShl(BOne, -a.e - 1))
         IN  a.sg * (IF c > 0 \/ (c = 0 /\ fl % 2 = 1) THEN fl + 1 ELSE fl)

\* the integer a float is printed as by format(a, ",.0f"): round to
\* nearest, ties to even
FRoundHalfEven(a) == Apply1(FNearestEven, a)

\* the exact comparison of a float with the rational p / q (p >= 0, q > 0
\* small integers): -1, 0, 1 as a < p/q, a = p/q, a > p/q.  Used to state
\* claims in exact arithmetic.
FCmpRat(a, p, q) ==
    IF a.sg < 0 THEN -1
    ELSE IF a.sg = 0 THEN (IF p = 0 THEN 0 ELSE -1)
    ELSE LET l == BMulInt(a.m, q)
             r == BFromInt(p)
         IN  IF a.e >= 0 THEN BCmp(BShl(l, a.e), r)
             ELSE BCmp(l, BShl(r, -a.e))

\* the float a Python literal or an int / int division n / d evaluates to
Dec(n, d) == FDiv(FInt(n), FInt(d))

\* least integer >= n / d, in exact integer arithmetic (n >= 0, d > 0)
CeilDiv(n, d) == (n + d - 1) \div d

(***************************************************************************)
(* The script's state.  Streamlit runs src/main.py from top to bottom on   *)
(* the first load and again on every interaction; pc is the position of    *)
(* the current run.  Every run starts from a fresh namespace.              *)
(***************************************************************************)
VARIABLES
    pc,
    \* the widgets (lines 11-57)
    steps_per_session, seconds_per_step, tokens_per_step, safety_buffer,
    spike_scaler, parallelism_input, emails_per_hour_input,
    \* core math (lines 59-89)
    sessions_per_hour_per_function, emails_per_hour_with_buffer,
    required_parallelism_with_buffer, steps_per_min, tpm_raw, tpm_with_buffer,
    tpm_with_spikes, tpm_needed, rpm_needed, total_latency_per_session,
    \* traffic distribution (lines 91-121)
    normal_draws, spike_branch, spike_factor, traffic_floored, total_traffic,
    traffic_per_minute, tpm_per_minute, avg_tpm_traffic, peak_tpm_traffic,
    \* display (lines 123-229)
    banner, shown_tpm_raw, total_emails_shown, min_traffic_per_minute,
    \* history: the inputs, the Calculator outputs and the noise of the
    \* run before the current one (not program state)
    prev_run

widgetVars == <<steps_per_session, seconds_per_step, tokens_per_step, safety_buffer,
                spike_scaler, parallelism_input, emails_per_hour_input>>

coreVars == <<sessions_per_hour_per_function, emails_per_hour_with_buffer,
              required_parallelism_with_buffer, steps_per_min, tpm_raw,
              tpm_with_buffer, tpm_with_spikes, tpm_needed, rpm_needed,
              total_latency_per_session>>

trafficVars == <<normal_draws, spike_branch, spike_factor, traffic_floored,
                 total_traffic, traffic_per_minute, tpm_per_minute,
                 avg_tpm_traffic, peak_tpm_traffic>>

displayVars == <<banner, shown_tpm_raw>>

summaryVars == <<total_emails_shown, min_traffic_per_minute>>

vars == <<pc, widgetVars, coreVars, trafficVars, displayVars, summaryVars, prev_run>>

(***************************************************************************)
(* Widgets.  Each widget returns its default on the first run and whatever *)
(* the user has set afterwards, within the widget's min_value/max_value.   *)
(* The slider for the spike scaler moves in steps of 0.1: its values are   *)
(* taken to be the floats nearest to k/10.                                 *)
(***************************************************************************)
Scaler(k) == Dec(k, 10)

WidgetDefaults ==
    [steps_per_session |-> 10, seconds_per_step |-> 30, tokens_per_step |-> 3000,
     safety_buffer |-> 20, spike_scaler |-> Scaler(20), parallelism_input |-> 100,
     emails_per_hour_input |-> 10000]

\* what the widgets allow
\* the settings of the spike slider: 1.0 .. 10.0 in steps of 0.1 (lines 42-49)
ScalerSettings == {Scaler(k) : k \in 10..100}

ValidInputs(w) ==
    /\ w.steps_per_session >= 1
    /\ w.seconds_per_step >= 1
    /\ w.tokens_per_step >= 1
    /\ w.safety_buffer \in {5 * k : k \in 0..20}
    /\ w.spike_scaler \in ScalerSettings
    /\ w.parallelism_input >= 1
    /\ w.emails_per_hour_input >= 1

(***************************************************************************)
(* Core math, lines 59-89, one operator per assignment.                    *)
(***************************************************************************)
SessionsPerHourPerFunction(S, T) == FDiv(FInt(3600), FInt(S * T))

\* 1 + safety_buffer / 100
BufferFactor(buffer) == FAdd(FInt(1), FDiv(FInt(buffer), FInt(100)))

EmailsPerHourWithBuffer(parallelism, sessions, buffer) ==
    FDiv(FMul(FInt(parallelism), sessions), BufferFactor(buffer))

RequiredParallelismWithBuffer(emails, sessions, buffer) ==
    FCeil(FMul(FDiv(FInt(emails), sessions), BufferFactor(buffer)))

StepsPerMin(emails, S) == FMul(FDiv(FInt(emails), FInt(60)), FInt(S))

TpmRaw(steps, tokens) == FMul(steps, FInt(tokens))

TpmWithBuffer(raw, buffer) == FMul(raw, BufferFactor(buffer))

TpmWithSpikes(buffered, scaler) == FMul(buffered, scaler)

\* the mutation of TpmNeeded without the floor of one step
TpmNeededUnfloored(spikes, tokens) == FCeil(spikes)

TpmNeeded(spikes, tokens) == Max2(FCeil(spikes), tokens)

\* the mutation of RpmNeeded that rounds down
RpmNeededFloor(steps) == -FCeil(FNeg(steps))

RpmNeeded(steps) == FCeil(steps)

\* the mutation of MeetsTarget that fails on equal values
MeetsTargetStrict(achievable, emails) == FGt(achievable, FInt(emails))

\* line 134: the success branch is taken
MeetsTarget(achievable, emails) == FGe(achievable, FInt(emails))

(***************************************************************************)
(* Traffic distribution, lines 91-121.  Minute m of the script (0..59) is  *)
(* index m + 1 of the sequences.  The sine tables hold the doubles         *)
(* np.sin(2 * np.pi * minutes / period) evaluates to: the argument is      *)
(* fl(fl(fl(2 * pi) * m) / period) and the sine is rounded to nearest.     *)
(***************************************************************************)
\* np.sin(2 * np.pi * minutes / 30), minutes 0..59
SinPeriod30 == <<
    [sg |-> 0, m |-> <<>>, e |-> 0],
    [sg |-> 1, m |-> <<6389, 12553, 3482, 1703>>, e |-> -55],
    [sg |-> 1, m |-> <<6864, 1048, 16274, 1665>>, e |-> -54],
    [sg |-> 1, m |-> <<6750, 4565, 12848, 1203>>, e |-> -53],
    [sg |-> 1, m |-> <<16065, 8398, 15738, 1521>>, e |-> -53],
    [sg |-> 1, m |-> <<3242, 8545, 10158, 1773>>, e |-> -53],
    [sg |-> 1, m |-> <<5375, 3345, 12513, 1947>>, e |-> -53],
    [sg |-> 1, m |-> <<10182, 5089, 12793, 2036>>, e |-> -53],
    [sg |-> 1, m |-> <<10183, 5089, 12793, 2036>>, e |-> -53],
    [sg |-> 1, m |-> <<5376, 3345, 12513, 1947>>, e |-> -53],
    [sg |-> 1, m |-> <<3243, 8545, 10158, 1773>>, e |-> -53],
    [sg |-> 1, m |-> <<16068, 8398, 15738, 1521>>, e |-> -53],
    [sg |-> 1, m |-> <<6751, 4565, 12848, 1203>>, e |-> -53],
    [sg |-> 1, m |-> <<6862, 1048, 16274, 1665>>, e |-> -54],
    [sg |-> 1, m |-> <<6389, 12553, 3482, 1703>>, e |-> -55],
    [sg |-> 1, m |-> <<5890, 13076, 6296, 1306>>, e |-> -103],
    [sg |-> -1, m |-> <<6380, 12553, 3482, 1703>>, e |-> -55],
    [sg |-> -1, m |-> <<6865, 1048, 16274, 1665>>, e |-> -54],
    [sg |-> -1, m |-> <<6749, 4565, 12848, 1203>>, e |-> -53],
    [sg |-> -1, m |-> <<16064, 8398, 15738, 1521>>, e |-> -53],
    [sg |-> -1, m |-> <<3240, 8545, 10158, 1773>>, e |-> -53],
    [sg |-> -1, m |-> <<5375, 3345, 12513, 1947>>, e |-> -53],
    [sg |-> -1, m |-> <<10182, 5089, 12793, 2036>>, e |-> -53],
    [sg |-> -1, m |-> <<10183, 5089, 12793, 2036>>, e |-> -53],
    [sg |-> -1, m |-> <<5376, 3345, 12513, 1947>>, e |-> -53],
    [sg |-> -1, m |-> <<3242, 8545, 10158, 1773>>, e |-> -53],
    [sg |-> -1, m |-> <<16064, 8398, 15738, 1521>>, e |-> -53],
    [sg |-> -1, m |-> <<6752, 4565, 12848, 1203>>, e |-> -53],
    [sg |-> -1, m |-> <<6864, 1048, 16274, 1665>>, e |-> -54],
    [sg |-> -1, m |-> <<6377, 12553, 3482, 1703>>, e |-> -55],
    [sg |-> -1, m |-> <<5890, 13076, 6296, 1306>>, e |-> -102],
    [sg |-> 1, m |-> <<6360, 12553, 3482, 1703>>, e |-> -55],
    [sg |-> 1, m |-> <<6856, 1048, 16274, 1665>>, e |-> -54],
    [sg |-> 1, m |-> <<6748, 4565, 12848, 1203>>, e |-> -53],
    [sg |-> 1, m |-> <<16066, 8398, 15738, 1521>>, e |-> -53],
    [sg |-> 1, m |-> <<3240, 8545, 10158, 1773>>, e |-> -53],
    [sg |-> 1, m |-> <<5375, 3345, 12513, 1947>>, e |-> -53],
    [sg |-> 1, m |-> <<10182, 5089, 12793, 2036>>, e |-> -53],
    [sg |-> 1, m |-> <<10183, 5089, 12793, 2036>>, e |-> -53],
    [sg |-> 1, m |-> <<5376, 3345, 12513, 1947>>, e |-> -53],
    [sg |-> 1, m |-> <<3247, 8545, 10158, 1773>>, e |-> -53],
    [sg |-> 1, m |-> <<16075, 8398, 15738, 1521>>, e |-> -53],
    [sg |-> 1, m |-> <<6752, 4565, 12848, 1203>>, e |-> -53],
    [sg |-> 1, m |-> <<6881, 1048, 16274, 1665>>, e |-> -54],
    [sg |-> 1, m |-> <<6444, 12553, 3482, 1703>>, e |-> -55],
    [sg |-> 1, m |-> <<2570, 12922, 5012, 1694>>, e |-> -104],
    [sg |-> -1, m |-> <<6356, 12553, 3482, 1703>>, e |-> -55],
    [sg |-> -1, m |-> <<6868, 1048, 16274, 1665>>, e |-> -54],
    [sg |-> -1, m |-> <<6747, 4565, 12848, 1203>>, e |-> -53],
    [sg |-> -1, m |-> <<16060, 8398, 15738, 1521>>, e |-> -53],
    [sg |-> -1, m |-> <<3243, 8545, 10158, 1773>>, e |-> -53],
    [sg |-> -1, m |-> <<5374, 3345, 12513, 1947>>, e |-> -53],
    [sg |-> -1, m |-> <<10183, 5089, 12793, 2036>>, e |-> -53],
    [sg |-> -1, m |-> <<10182, 5089, 12793, 2036>>, e |-> -53],
    [sg |-> -1, m |-> <<5377, 3345, 12513, 1947>>, e |-> -53],
    [sg |-> -1, m |-> <<3239, 8545, 10158, 1773>>, e |-> -53],
    [sg |-> -1, m |-> <<16065, 8398, 15738, 1521>>, e |-> -53],
    [sg |-> -1, m |-> <<6753, 4565, 12848, 1203>>, e |-> -53],
    [sg |-> -1, m |-> <<6853, 1048, 16274, 1665>>, e |-> -54],
    [sg |-> -1, m |-> <<6386, 12553, 3482, 1703>>, e |-> -55] >>

\* np.sin(2 * np.pi * minutes / 20), minutes 0..59
SinPeriod20 == <<
    [sg |-> 0, m |-> <<>>, e |-> 0],
    [sg |-> 1, m |-> <<10575, 7359, 12019, 1265>>, e |-> -54],
    [sg |-> 1, m |-> <<6750, 4565, 12848, 1203>>, e |-> -53],
    [sg |-> 1, m |-> <<13480, 11871, 14201, 1656>>, e |-> -53],
    [sg |-> 1, m |-> <<5375, 3345, 12513, 1947>>, e |-> -53],
    [sg |-> 1, m |-> <<0, 0, 0, 1024>>, e |-> -52],
    [sg |-> 1, m |-> <<5376, 3345, 12513, 1947>>, e |-> -53],
    [sg |-> 1, m |-> <<13480, 11871, 14201, 1656>>, e |-> -53],
    [sg |-> 1, m |-> <<6751, 4565, 12848, 1203>>, e |-> -53],
    [sg |-> 1, m |-> <<10577, 7359, 12019, 1265>>, e |-> -54],
    [sg |-> 1, m |-> <<7175, 3153, 8803, 1129>>, e |-> -105],
    [sg |-> -1, m |-> <<10566, 7359, 12019, 1265>>, e |-> -54],
    [sg |-> -1, m |-> <<6749, 4565, 12848, 1203>>, e |-> -53],
    [sg |-> -1, m |-> <<13479, 11871, 14201, 1656>>, e |-> -53],
    [sg |-> -1, m |-> <<5375, 3345, 12513, 1947>>, e |-> -53],
    [sg |-> -1, m |-> <<0, 0, 0, 1024>>, e |-> -52],
    [sg |-> -1, m |-> <<5376, 3345, 12513, 1947>>, e |-> -53],
    [sg |-> -1, m |-> <<13481, 11871, 14201, 1656>>, e |-> -53],
    [sg |-> -1, m |-> <<6752, 4565, 12848, 1203>>, e |-> -53],
    [sg |-> -1, m |-> <<10579, 7359, 12019, 1265>>, e |-> -54],
    [sg |-> -1, m |-> <<7175, 3153, 8803, 1129>>, e |-> -104],
    [sg |-> 1, m |-> <<10571, 7359, 12019, 1265>>, e |-> -54],
    [sg |-> 1, m |-> <<6741, 4565, 12848, 1203>>, e |-> -53],
    [sg |-> 1, m |-> <<13478, 11871, 14201, 1656>>, e |-> -53],
    [sg |-> 1, m |-> <<5375, 3345, 12513, 1947>>, e |-> -53],
    [sg |-> 1, m |-> <<0, 0, 0, 1024>>, e |-> -52],
    [sg |-> 1, m |-> <<5376, 3345, 12513, 1947>>, e |-> -53],
    [sg |-> 1, m |-> <<13482, 11871, 14201, 1656>>, e |-> -53],
    [sg |-> 1, m |-> <<6752, 4565, 12848, 1203>>, e |-> -53],
    [sg |-> 1, m |-> <<10582, 7359, 12019, 1265>>, e |-> -54],
    [sg |-> 1, m |-> <<2570, 12922, 5012, 1694>>, e |-> -104],
    [sg |-> -1, m |-> <<10569, 7359, 12019, 1265>>, e |-> -54],
    [sg |-> -1, m |-> <<6747, 4565, 12848, 1203>>, e |-> -53],
    [sg |-> -1, m |-> <<13478, 11871, 14201, 1656>>, e |-> -53],
    [sg |-> -1, m |-> <<5374, 3345, 12513, 1947>>, e |-> -53],
    [sg |-> -1, m |-> <<0, 0, 0, 1024>>, e |-> -52],
    [sg |-> -1, m |-> <<5377, 3345, 12513, 1947>>, e |-> -53],
    [sg |-> -1, m |-> <<13482, 11871, 14201, 1656>>, e |-> -53],
    [sg |-> -1, m |-> <<6753, 4565, 12848, 1203>>, e |-> -53],
    [sg |-> -1, m |-> <<10584, 7359, 12019, 1265>>, e |-> -54],
    [sg |-> -1, m |-> <<7175, 3153, 8803, 1129>>, e |-> -103],
    [sg |-> 1, m |-> <<10536, 7359, 12019, 1265>>, e |-> -54],
    [sg |-> 1, m |-> <<6746, 4565, 12848, 1203>>, e |-> -53],
    [sg |-> 1, m |-> <<13477, 11871, 14201, 1656>>, e |-> -53],
    [sg |-> 1, m |-> <<5369, 3345, 12513, 1947>>, e |-> -53],
    [sg |-> 1, m |-> <<0, 0, 0, 1024>>, e |-> -52],
    [sg |-> 1, m |-> <<5377, 3345, 12513, 1947>>, e |-> -53],
    [sg |-> 1, m |-> <<13473, 11871, 14201, 1656>>, e |-> -53],
    [sg |-> 1, m |-> <<6754, 4565, 12848, 1203>>, e |-> -53],
    [sg |-> 1, m |-> <<10616, 7359, 12019, 1265>>, e |-> -54],
    [sg |-> 1, m |-> <<13065, 16229, 15099, 1411>>, e |-> -103],
    [sg |-> -1, m |-> <<10534, 7359, 12019, 1265>>, e |-> -54],
    [sg |-> -1, m |-> <<6745, 4565, 12848, 1203>>, e |-> -53],
    [sg |-> -1, m |-> <<13486, 11871, 14201, 1656>>, e |-> -53],
    [sg |-> -1, m |-> <<5374, 3345, 12513, 1947>>, e |-> -53],
    [sg |-> -1, m |-> <<0, 0, 0, 1024>>, e |-> -52],
    [sg |-> -1, m |-> <<5377, 3345, 12513, 1947>>, e |-> -53],
    [sg |-> -1, m |-> <<13493, 11871, 14201, 1656>>, e |-> -53],
    [sg |-> -1, m |-> <<6755, 4565, 12848, 1203>>, e |-> -53],
    [sg |-> -1, m |-> <<10618, 7359, 12019, 1265>>, e |-> -54] >>

\* np.sin(2 * np.pi * minutes / 15), minutes 0..59
SinPeriod15 == <<
    [sg |-> 0, m |-> <<>>, e |-> 0],
    [sg |-> 1, m |-> <<6864, 1048, 16274, 1665>>, e |-> -54],
    [sg |-> 1, m |-> <<16065, 8398, 15738, 1521>>, e |-> -53],
    [sg |-> 1, m |-> <<5375, 3345, 12513, 1947>>, e |-> -53],
    [sg |-> 1, m |-> <<10183, 5089, 12793, 2036>>, e |-> -53],
    [sg |-> 1, m |-> <<3243, 8545, 10158, 1773>>, e |-> -53],
    [sg |-> 1, m |-> <<6751, 4565, 12848, 1203>>, e |-> -53],
    [sg |-> 1, m |-> <<6389, 12553, 3482, 1703>>, e |-> -55],
    [sg |-> -1, m |-> <<6380, 12553, 3482, 1703>>, e |-> -55],
    [sg |-> -1, m |-> <<6749, 4565, 12848, 1203>>, e |-> -53],
    [sg |-> -1, m |-> <<3240, 8545, 10158, 1773>>, e |-> -53],
    [sg |-> -1, m |-> <<10182, 5089, 12793, 2036>>, e |-> -53],
    [sg |-> -1, m |-> <<5376, 3345, 12513, 1947>>, e |-> -53],
    [sg |-> -1, m |-> <<16064, 8398, 15738, 1521>>, e |-> -53],
    [sg |-> -1, m |-> <<6864, 1048, 16274, 1665>>, e |-> -54],
    [sg |-> -1, m |-> <<5890, 13076, 6296, 1306>>, e |-> -102],
    [sg |-> 1, m |-> <<6856, 1048, 16274, 1665>>, e |-> -54],
    [sg |-> 1, m |-> <<16066, 8398, 15738, 1521>>, e |-> -53],
    [sg |-> 1, m |-> <<5375, 3345, 12513, 1947>>, e |-> -53],
    [sg |-> 1, m |-> <<10183, 5089, 12793, 2036>>, e |-> -53],
    [sg |-> 1, m |-> <<3247, 8545, 10158, 1773>>, e |-> -53],
    [sg |-> 1, m |-> <<6752, 4565, 12848, 1203>>, e |-> -53],
    [sg |-> 1, m |-> <<6444, 12553, 3482, 1703>>, e |-> -55],
    [sg |-> -1, m |-> <<6356, 12553, 3482, 1703>>, e |-> -55],
    [sg |-> -1, m |-> <<6747, 4565, 12848, 1203>>, e |-> -53],
    [sg |-> -1, m |-> <<3243, 8545, 10158, 1773>>, e |-> -53],
    [sg |-> -1, m |-> <<10183, 5089, 12793, 2036>>, e |-> -53],
    [sg |-> -1, m |-> <<5377, 3345, 12513, 1947>>, e |-> -53],
    [sg |-> -1, m |-> <<16065, 8398, 15738, 1521>>, e |-> -53],
    [sg |-> -1, m |-> <<6853, 1048, 16274, 1665>>, e |-> -54],
    [sg |-> -1, m |-> <<5890, 13076, 6296, 1306>>, e |-> -101],
    [sg |-> 1, m |-> <<6837, 1048, 16274, 1665>>, e |-> -54],
    [sg |-> 1, m |-> <<16059, 8398, 15738, 1521>>, e |-> -53],
    [sg |-> 1, m |-> <<5374, 3345, 12513, 1947>>, e |-> -53],
    [sg |-> 1, m |-> <<10182, 5089, 12793, 2036>>, e |-> -53],
    [sg |-> 1, m |-> <<3248, 8545, 10158, 1773>>, e |-> -53],
    [sg |-> 1, m |-> <<6754, 4565, 12848, 1203>>, e |-> -53],
    [sg |-> 1, m |-> <<6390, 12553, 3482, 1703>>, e |-> -55],
    [sg |-> -1, m |-> <<6347, 12553, 3482, 1703>>, e |-> -55],
    [sg |-> -1, m |-> <<6745, 4565, 12848, 1203>>, e |-> -53],
    [sg |-> -1, m |-> <<3234, 8545, 10158, 1773>>, e |-> -53],
    [sg |-> -1, m |-> <<10180, 5089, 12793, 2036>>, e |-> -53],
    [sg |-> -1, m |-> <<5377, 3345, 12513, 1947>>, e |-> -53],
    [sg |-> -1, m |-> <<16077, 8398, 15738, 1521>>, e |-> -53],
    [sg |-> -1, m |-> <<6916, 1048, 16274, 1665>>, e |-> -54],
    [sg |-> -1, m |-> <<2570, 12922, 5012, 1694>>, e |-> -103],
    [sg |-> 1, m |-> <<6833, 1048, 16274, 1665>>, e |-> -54],
    [sg |-> 1, m |-> <<16068, 8398, 15738, 1521>>, e |-> -53],
    [sg |-> 1, m |-> <<5373, 3345, 12513, 1947>>, e |-> -53],
    [sg |-> 1, m |-> <<10184, 5089, 12793, 2036>>, e |-> -53],
    [sg |-> 1, m |-> <<3241, 8545, 10158, 1773>>, e |-> -53],
    [sg |-> 1, m |-> <<6756, 4565, 12848, 1203>>, e |-> -53],
    [sg |-> 1, m |-> <<6336, 12553, 3482, 1703>>, e |-> -55],
    [sg |-> -1, m |-> <<6401, 12553, 3482, 1703>>, e |-> -55],
    [sg |-> -1, m |-> <<6744, 4565, 12848, 1203>>, e |-> -53],
    [sg |-> -1, m |-> <<3249, 8545, 10158, 1773>>, e |-> -53],
    [sg |-> -1, m |-> <<10183, 5089, 12793, 2036>>, e |-> -53],
    [sg |-> -1, m |-> <<5378, 3345, 12513, 1947>>, e |-> -53],
    [sg |-> -1, m |-> <<16057, 8398, 15738, 1521>>, e |-> -53],
    [sg |-> -1, m |-> <<6861, 1048, 16274, 1665>>, e |-> -54] >>

\* the three shapes: period of the sine, its table, its amplitude and the
\* weight of the noise (lines 98, 101, 104)
LowTier ==
    [name |-> "low", period |-> 30, sines |-> SinPeriod30,
     amplitude |-> Dec(2, 10), noise |-> Dec(1, 10)]

MediumTier ==
    [name |-> "medium", period |-> 20, sines |-> SinPeriod20,
     amplitude |-> Dec(5, 10), noise |-> Dec(2, 10)]

HighTier ==
    [name |-> "high", period |-> 15, sines |-> SinPeriod15,
     amplitude |-> Dec(8, 10), noise |-> Dec(3, 10)]

\* the literals 1.5 and 3.0 of lines 96 and 99
LowBound == Dec(15, 10)

MediumBound == Dec(30, 10)

\* the mutation of SelectTier that excludes the boundaries from the lower tier
SelectTierExclusive(scaler) ==
    IF FLt(scaler, LowBound) THEN LowTier
    ELSE IF FLt(scaler, MediumBound) THEN MediumTier
    ELSE HighTier

\* lines 96-104: the branch taken
SelectTier(scaler) ==
    IF FLe(scaler, LowBound) THEN LowTier
    ELSE IF FLe(scaler, MediumBound) THEN MediumTier
    ELSE HighTier

FOne == FInt(1)

\* line 93
BaseTraffic(emails) == FDiv(FInt(emails), FInt(60))

\* lines 98, 101, 104: 1 + amplitude * sin + weight * normal, at one minute
SpikeFactor(tier, draws, i) ==
    FAdd(FAdd(FOne, FMul(tier.amplitude, tier.sines[i])),
         FMul(tier.noise, draws[i]))

\* line 107, left operand: base_traffic * spike_factor * spike_scaler
ShapedTraffic(base, factor, scaler) == FMul(FMul(base, factor), scaler)

\* line 108, right operand: base_traffic * 0.1
Tenth == Dec(1, 10)

TrafficFloor(base) == FMul(base, Tenth)

\* the mutation of NpMaximum that applies no floor
NoFloor(x, lo) == x

\* line 108: np.maximum, at one element
NpMaximum(x, lo) == IF FGe(x, lo) THEN x ELSE lo

\* np.sum of 60 doubles (lines 111, 120, 173): numpy's pairwise reduction
\* keeps eight partial sums r[j] = a[j] + a[j + 8] + ... + a[j + 48] over
\* the first 56 elements, adds them in a tree,
\* ((r1 + r2) + (r3 + r4)) + ((r5 + r6) + (r7 + r8)), and then adds the
\* last four elements one by one.
RECURSIVE NpSumLane(_, _, _)
NpSumLane(a, j, n) ==
    IF n = 0 THEN a[j] ELSE FAdd(NpSumLane(a, j, n - 1), a[j + 8 * n])

RECURSIVE NpSumTree(_, _, _)
NpSumTree(a, lo, hi) ==
    IF lo = hi THEN NpSumLane(a, lo, 6)
    ELSE FAdd(NpSumTree(a, lo, (lo + hi) \div 2), NpSumTree(a, (lo + hi) \div 2 + 1, hi))

RECURSIVE NpSumTail(_, _)
NpSumTail(a, i) ==
    IF i = 56 THEN NpSumTree(a, 1, 8) ELSE FAdd(NpSumTail(a, i - 1), a[i])

NpSum(a) == NpSumTail(a, 60)

\* np.mean of 60 doubles (line 120): the sum divided by the count
NpMean(a) == FDiv(NpSum(a), FInt(Len(a)))

\* np.max and np.min (lines 121, 175)
NpMax(a) ==
    CHOOSE x \in {a[i] : i \in DOMAIN a} : \A i \in DOMAIN a : FCmpSigned(x, a[i]) >= 0

NpMin(a) ==
    CHOOSE x \in {a[i] : i \in DOMAIN a} : \A i \in DOMAIN a : FCmpSigned(x, a[i]) <= 0

\* line 112: the curve is rescaled
Normalizes(total, emails) == FGt(total, FInt(emails))

\* line 113: emails_per_hour_input / total_traffic
NormalizationRatio(emails, total) == FDiv(FInt(emails), total)

\* lines 116-117, at one minute
TpmAt(traffic, S, tokens) == FMul(FMul(traffic, FInt(S)), FInt(tokens))

\* The exact sum of non-negative floats compared with the integer n:
\* -1, 0, 1 as the sum is below, equal to or above n.  Used to state claims
\* in exact arithmetic.
RECURSIVE ExactSumRange(_, _, _, _)
ExactSumRange(a, emin, lo, hi) ==
    IF lo = hi THEN BShl(a[lo].m, a[lo].e - emin)
    ELSE BAdd(ExactSumRange(a, emin, lo, (lo + hi) \div 2),
              ExactSumRange(a, emin, (lo + hi) \div 2 + 1, hi))

ExactSumCmp(a, n) ==
    LET exps == {a[i].e : i \in DOMAIN a} \cup {0}
        emin == CHOOSE e \in exps : \A f \in exps : e <= f
    IN  BCmp(BNorm(ExactSumRange(a, emin, 1, Len(a))), BShl(BFromInt(n), -emin))

(***************************************************************************)
(* A run of the script.                                                    *)
(***************************************************************************)
NoRun == [run |-> "none"]

\* the Calculator's outputs of the current run
CapacityResult ==
    [sessions_per_hour_per_function |-> sessions_per_hour_per_function,
     emails_per_hour_with_buffer |-> emails_per_hour_with_buffer,
     required_parallelism_with_buffer |-> required_parallelism_with_buffer,
     rpm_needed |-> rpm_needed,
     tpm_raw |-> tpm_raw,
     tpm_needed |-> tpm_needed,
     total_latency_per_session |-> total_latency_per_session,
     banner |-> banner]

Widgets ==
    [steps_per_session |-> steps_per_session, seconds_per_step |-> seconds_per_step,
     tokens_per_step |-> tokens_per_step, safety_buffer |-> safety_buffer,
     spike_scaler |-> spike_scaler, parallelism_input |-> parallelism_input,
     emails_per_hour_input |-> emails_per_hour_input]

\* a fresh namespace: nothing is assigned yet
Fresh ==
    /\ sessions_per_hour_per_function' = FZero
    /\ emails_per_hour_with_buffer' = FZero
    /\ required_parallelism_with_buffer' = 0
    /\ steps_per_min' = FZero
    /\ tpm_raw' = FZero
    /\ tpm_with_buffer' = FZero
    /\ tpm_with_spikes' = FZero
    /\ tpm_needed' = 0
    /\ rpm_needed' = 0
    /\ total_latency_per_session' = 0
    /\ normal_draws' = <<>>
    /\ spike_branch' = "none"
    /\ spike_factor' = <<>>
    /\ traffic_floored' = <<>>
    /\ total_traffic' = FZero
    /\ traffic_per_minute' = <<>>
    /\ tpm_per_minute' = <<>>
    /\ avg_tpm_traffic' = FZero
    /\ peak_tpm_traffic' = FZero
    /\ banner' = "none"
    /\ shown_tpm_raw' = 0
    /\ total_emails_shown' = FZero
    /\ min_traffic_per_minute' = FZero

\* The first run: the widgets return their defaults.
Init ==
    /\ pc = "math"
    /\ steps_per_session = WidgetDefaults.steps_per_session
    /\ seconds_per_step = WidgetDefaults.seconds_per_step
    /\ tokens_per_step = WidgetDefaults.tokens_per_step
    /\ safety_buffer = WidgetDefaults.safety_buffer
    /\ spike_scaler = WidgetDefaults.spike_scaler
    /\ parallelism_input = WidgetDefaults.parallelism_input
    /\ emails_per_hour_input = WidgetDefaults.emails_per_hour_input
    /\ sessions_per_hour_per_function = FZero
    /\ emails_per_hour_with_buffer = FZero
    /\ required_parallelism_with_buffer = 0
    /\ steps_per_min = FZero
    /\ tpm_raw = FZero
    /\ tpm_with_buffer = FZero
    /\ tpm_with_spikes = FZero
    /\ tpm_needed = 0
    /\ rpm_needed = 0
    /\ total_latency_per_session = 0
    /\ normal_draws = <<>>
    /\ spike_branch = "none"
    /\ spike_factor = <<>>
    /\ traffic_floored = <<>>
    /\ total_traffic = FZero
    /\ traffic_per_minute = <<>>
    /\ tpm_per_minute = <<>>
    /\ avg_tpm_traffic = FZero
    /\ peak_tpm_traffic = FZero
    /\ banner = "none"
    /\ shown_tpm_raw = 0
    /\ total_emails_shown = FZero
    /\ min_traffic_per_minute = FZero
    /\ prev_run = NoRun

\* Lines 11-57 of the next run: the user has set widget f to v (or has
\* asked for a rerun with nothing changed) and the script starts again.
\* remembered is the earlier run kept for comparison, NoRun for none.
Rerun(f, v, remembered) ==
    LET w == [Widgets EXCEPT ![f] = v]
    IN  /\ pc = "done"
        /\ ValidInputs(w)
        /\ pc' = "math"
        /\ steps_per_session' = w.steps_per_session
        /\ seconds_per_step' = w.seconds_per_step
        /\ tokens_per_step' = w.tokens_per_step
        /\ safety_buffer' = w.safety_buffer
        /\ spike_scaler' = w.spike_scaler
        /\ parallelism_input' = w.parallelism_input
        /\ emails_per_hour_input' = w.emails_per_hour_input
        /\ Fresh
        /\ prev_run' = remembered

\* Lines 59-89.
CoreMath(next) ==
    /\ pc = "math"
    /\ pc' = next
    /\ sessions_per_hour_per_function' =
           SessionsPerHourPerFunction(steps_per_session, seconds_per_step)
    /\ emails_per_hour_with_buffer' =
           EmailsPerHourWithBuffer(parallelism_input, sessions_per_hour_per_function',
                                   safety_buffer)
    /\ required_parallelism_with_buffer' =
           RequiredParallelismWithBuffer(emails_per_hour_input,
                                         sessions_per_hour_per_function', safety_buffer)
    /\ steps_per_min' = StepsPerMin(emails_per_hour_input, steps_per_session)
    /\ tpm_raw' = TpmRaw(steps_per_min', tokens_per_step)
    /\ tpm_with_buffer' = TpmWithBuffer(tpm_raw', safety_buffer)
    /\ tpm_with_spikes' = TpmWithSpikes(tpm_with_buffer', spike_scaler)
    /\ tpm_needed' = TpmNeeded(tpm_with_spikes', tokens_per_step)
    /\ rpm_needed' = RpmNeeded(steps_per_min')
    /\ total_latency_per_session' = steps_per_session * seconds_per_step
    /\ UNCHANGED <<widgetVars, trafficVars, displayVars, summaryVars, prev_run>>

\* Lines 126-147 and 190-200: the banner (success or warning) and the
\* figures printed from the Calculator; "Tokens per minute (raw)" is
\* printed with the format ",.0f".
Display(next) ==
    /\ pc = "display"
    /\ pc' = next
    /\ banner' = IF MeetsTarget(emails_per_hour_with_buffer, emails_per_hour_input)
                 THEN "success" ELSE "warning"
    /\ shown_tpm_raw' = FRoundHalfEven(tpm_raw)
    /\ UNCHANGED <<widgetVars, coreVars, trafficVars, summaryVars, prev_run>>

\* the mutation of TrafficKeepsCalculator in which the traffic statements
\* write a Calculator variable from a noise draw
TrafficWritesCalculator(draws) ==
    /\ tpm_needed' = tpm_needed + (IF draws[12].sg < 0 THEN 1 ELSE 0)
    /\ UNCHANGED <<sessions_per_hour_per_function, emails_per_hour_with_buffer,
                   required_parallelism_with_buffer, steps_per_min, tpm_raw,
                   tpm_with_buffer, tpm_with_spikes, rpm_needed,
                   total_latency_per_session>>

\* lines 91-121 assign none of the variables of lines 59-89
TrafficKeepsCalculator(draws) == UNCHANGED coreVars

\* Lines 91-121.  draws is what np.random.normal returns in this run.
Traffic(draws, next) ==
    LET tier  == SelectTier(spike_scaler)
        base  == BaseTraffic(emails_per_hour_input)
        floor == TrafficFloor(base)
    IN  /\ pc = "traffic"
        /\ pc' = next
        /\ normal_draws' = draws
        /\ spike_branch' = tier.name
        /\ spike_factor' = [i \in 1..60 |-> SpikeFactor(tier, draws, i)]
        /\ traffic_floored' =
               [i \in 1..60 |->
                   NpMaximum(ShapedTraffic(base, spike_factor'[i], spike_scaler), floor)]
        /\ total_traffic' = NpSum(traffic_floored')
        /\ traffic_per_minute' =
               IF Normalizes(total_traffic', emails_per_hour_input)
               THEN LET ratio == NormalizationRatio(emails_per_hour_input, total_traffic')
                    IN  [i \in 1..60 |-> FMul(traffic_floored'[i], ratio)]
               ELSE traffic_floored'
        /\ tpm_per_minute' =
               [i \in 1..60 |->
                   TpmAt(traffic_per_minute'[i], steps_per_session, tokens_per_step)]
        /\ avg_tpm_traffic' = NpMean(tpm_per_minute')
        /\ peak_tpm_traffic' = NpMax(tpm_per_minute')
        /\ TrafficKeepsCalculator(draws)
        /\ UNCHANGED <<widgetVars, displayVars, summaryVars, prev_run>>

\* Lines 172-188: the traffic summary.
TrafficSummary(next) ==
    /\ pc = "summary"
    /\ pc' = next
    /\ total_emails_shown' = NpSum(traffic_per_minute)
    /\ min_traffic_per_minute' = NpMin(traffic_per_minute)
    /\ UNCHANGED <<widgetVars, coreVars, trafficVars, displayVars, prev_run>>

(***************************************************************************)
(* Spec: the Calculator.  The runs of the script over a grid of widget     *)
(* settings, with the traffic statements (lines 91-121 and 172-188) left   *)
(* out: they assign none of the Calculator's variables and read none of    *)
(* them, so a run is lines 11-57, 59-89, 126-147 and 190-200.              *)
(***************************************************************************)
MaxParallelism == 12

\* the settings each widget is moved through
CalcInputs ==
    [steps_per_session |-> {1, 10},
     seconds_per_step |-> {1, 30},
     tokens_per_step |-> {1, 3000},
     safety_buffer |-> {0, 5, 10, 20},
     spike_scaler |-> {Scaler(10), Scaler(11), Scaler(20)},
     parallelism_input |-> (1..MaxParallelism) \cup {100, 1000},
     emails_per_hour_input |-> {1, 80, 120, 10000}]

Next ==
    \/ \E f \in DOMAIN CalcInputs : \E v \in CalcInputs[f] : Rerun(f, v, NoRun)
    \/ CoreMath("display")
    \/ Display("done")

Spec == Init /\ [][Next]_vars

(***************************************************************************)
(* SpecTraffic: the whole script.  The spike slider moves through all its  *)
(* settings, the other widgets stay at their defaults.  np.random.normal   *)
(* can return any doubles; the runs take draws that are the same at every  *)
(* minute but minute 11, where the sine of period 15 is lowest.            *)
(***************************************************************************)
NoiseAtTrough == {Dec(-6, 10), FZero}

NoiseElsewhere == {FZero, Dec(1, 10)}

NoiseFamily ==
    {[i \in 1..60 |-> IF i = 12 THEN a ELSE b] : a \in NoiseAtTrough, b \in NoiseElsewhere}

TrafficInputs ==
    [steps_per_session |-> {WidgetDefaults.steps_per_session},
     seconds_per_step |-> {WidgetDefaults.seconds_per_step},
     tokens_per_step |-> {WidgetDefaults.tokens_per_step},
     safety_buffer |-> {WidgetDefaults.safety_buffer},
     spike_scaler |-> ScalerSettings,
     parallelism_input |-> {WidgetDefaults.parallelism_input},
     emails_per_hour_input |-> {WidgetDefaults.emails_per_hour_input}]

NextTraffic ==
    \/ \E f \in DOMAIN TrafficInputs : \E v \in TrafficInputs[f] : Rerun(f, v, NoRun)
    \/ CoreMath("traffic")
    \/ \E draws \in NoiseFamily : Traffic(draws, "display")
    \/ Display("summary")
    \/ TrafficSummary("done")

SpecTraffic == Init /\ [][NextTraffic]_vars

(***************************************************************************)
(* SpecRerun: the whole script with a record of an earlier run.  When a    *)
(* run starts, the run that has just finished is either remembered or the  *)
(* run remembered before is kept, so the current run is compared with any  *)
(* earlier run, whatever ran in between.                                   *)
(***************************************************************************)
RerunNoise == {[i \in 1..60 |-> IF i = 12 THEN a ELSE FZero] : a \in NoiseAtTrough}

RerunInputs ==
    [steps_per_session |-> {WidgetDefaults.steps_per_session},
     seconds_per_step |-> {WidgetDefaults.seconds_per_step},
     tokens_per_step |-> {WidgetDefaults.tokens_per_step},
     safety_buffer |-> {WidgetDefaults.safety_buffer},
     spike_scaler |-> {Scaler(20), Scaler(31)},
     parallelism_input |-> {WidgetDefaults.parallelism_input},
     emails_per_hour_input |-> {80, WidgetDefaults.emails_per_hour_input}]

\* the finished run as it is remembered
ThisRun ==
    [run |-> "done", widgets |-> Widgets, result |-> CapacityResult,
     draws |-> normal_draws, other_between |-> FALSE]

\* the remembered run after one more run has finished
Kept ==
    IF prev_run.run = "none" THEN prev_run
    ELSE [prev_run EXCEPT !.other_between = @ \/ prev_run.widgets # Widgets]

NextRerun ==
    \/ \E f \in DOMAIN RerunInputs : \E v \in RerunInputs[f] :
           \E remembered \in {ThisRun, Kept} : Rerun(f, v, remembered)
    \/ CoreMath("traffic")
    \/ \E draws \in RerunNoise : Traffic(draws, "display")
    \/ Display("summary")
    \/ TrafficSummary("done")

SpecRerun == Init /\ [][NextRerun]_vars

----------------------------------------------------------------------------
(***************************************************************************)
(* Claims about the Calculator.                                            *)
(***************************************************************************)

\* P * sessions_per_hour_per_worker >= target * (1 + buffer/100), evaluated
\* in floats
CoversTargetFloat(P) ==
    FGe(FMul(FInt(P), sessions_per_hour_per_function),
        FMul(FInt(emails_per_hour_input), BufferFactor(safety_buffer)))

\* the same in exact arithmetic: P * 360000 >= target * (100 + buffer) *
\* steps * seconds
CoversTargetExact(P) ==
    P * 360000 >= emails_per_hour_input * (100 + safety_buffer)
                      * (steps_per_session * seconds_per_step)

\* C3: required_parallelism is the smallest integer P with
\* P * sessions_per_hour_per_worker >= target * (1 + buffer/100), with the
\* inequality read in exact arithmetic or read in floats.
C3_RequiredParallelismIsLeast ==
    pc = "done" =>
        \/ /\ CoversTargetExact(required_parallelism_with_buffer)
           /\ ~CoversTargetExact(required_parallelism_with_buffer - 1)
        \/ /\ CoversTargetFloat(required_parallelism_with_buffer)
           /\ ~CoversTargetFloat(required_parallelism_with_buffer - 1)

\* C4: the success branch is taken exactly when the achievable emails per
\* hour, parallelism * (3600 / (steps * seconds)) / (1 + buffer/100) as the
\* script computes it, is at least the target; equal values give success.
C4_MeetsTargetIffAchievable ==
    pc = "done" =>
        /\ emails_per_hour_with_buffer =
               FDiv(FMul(FInt(parallelism_input),
                         FDiv(FInt(3600), FInt(steps_per_session * seconds_per_step))),
                    FAdd(FInt(1), FDiv(FInt(safety_buffer), FInt(100))))
        /\ banner \in {"success", "warning"}
        /\ banner = "success" <=>
               FCmp(emails_per_hour_with_buffer, FInt(emails_per_hour_input)) >= 0
        /\ FCmp(emails_per_hour_with_buffer, FInt(emails_per_hour_input)) = 0
               => banner = "success"

\* a run in which achievable and target are exactly equal, and succeeded
C4_Witness ==
    /\ pc = "done"
    /\ FCmp(emails_per_hour_with_buffer, FInt(emails_per_hour_input)) = 0
    /\ banner = "success"

\* C5: tpm_needed = max(ceil(tpm_raw * (1 + buffer/100) * spike_scaler),
\* tokens_per_step), hence tpm_needed >= tokens_per_step.
C5_TpmNeededFloor ==
    pc = "done" =>
        /\ tpm_needed >= tokens_per_step
        /\ LET unfloored == FCeil(FMul(FMul(tpm_raw, BufferFactor(safety_buffer)),
                                       spike_scaler))
           IN  tpm_needed = IF unfloored >= tokens_per_step THEN unfloored
                            ELSE tokens_per_step

\* the smallest inputs, where the un-floored value is below tokens_per_step
C5_Witness ==
    /\ pc = "done"
    /\ emails_per_hour_input = 1
    /\ steps_per_session = 1
    /\ safety_buffer = 0
    /\ spike_scaler = Scaler(10)
    /\ FCeil(tpm_with_spikes) < tokens_per_step
    /\ tpm_needed = tokens_per_step

\* C6 as stated: requests_per_minute is the least integer >= target/60 *
\* steps and the steady token rate the program shows is the least integer
\* >= target/60 * steps * tokens_per_step, the products being the floats
\* the script computes.
C6_BothRoundedUp ==
    pc = "done" =>
        LET steps == FMul(FDiv(FInt(emails_per_hour_input), FInt(60)),
                          FInt(steps_per_session))
        IN  /\ rpm_needed = FCeil(steps)
            /\ shown_tpm_raw = FCeil(FMul(steps, FInt(tokens_per_step)))

\* C6 as amended: requests_per_minute is the ceiling of the float
\* steps_per_min and is never below target/60 * steps; the steady token
\* rate tpm_raw is not rounded up: it stays a float and is printed rounded
\* to the nearest integer; the token figure that is rounded up is tpm_needed.
C6_RpmRoundedUpTpmNearest ==
    pc = "done" =>
        /\ rpm_needed = FCeil(steps_per_min)
        /\ rpm_needed * 60 >= emails_per_hour_input * steps_per_session
        /\ FCmpRat(steps_per_min, emails_per_hour_input * steps_per_session, 60) >= 0
               => rpm_needed <= CeilDiv(emails_per_hour_input * steps_per_session, 60) + 1
        /\ shown_tpm_raw = FRoundHalfEven(tpm_raw)
        /\ tpm_needed >= FCeil(tpm_with_spikes)

\* a run whose printed steady token rate is below the exact rate
C6_Witness ==
    /\ pc = "done"
    /\ shown_tpm_raw * 60 < emails_per_hour_input * steps_per_session * tokens_per_step
    /\ rpm_needed * 60 > emails_per_hour_input * steps_per_session

\* C9: the success banner is shown exactly when the available parallelism
\* is at least the required parallelism.
C9_BannerAgreesWithRequirement ==
    pc = "done" =>
        (banner = "success" <=> parallelism_input >= required_parallelism_with_buffer)

----------------------------------------------------------------------------
(***************************************************************************)
(* Claims about the traffic curve.                                         *)
(***************************************************************************)

\* C1: the sum of the 60 final traffic_per_minute samples never exceeds the
\* target emails per hour, the sum being the exact sum of the samples or
\* the sum the script itself computes and shows.
C1_SumNeverExceedsTarget ==
    pc = "done" =>
        \/ ExactSumCmp(traffic_per_minute, emails_per_hour_input) <= 0
        \/ FLe(total_emails_shown, FInt(emails_per_hour_input))

\* C2 as stated: every final sample is at least 0.1 * base_traffic, with
\* base_traffic = target / 60.
C2_FinalSamplesAboveFloor ==
    pc = "done" =>
        \A i \in 1..60 :
            FGe(traffic_per_minute[i], TrafficFloor(BaseTraffic(emails_per_hour_input)))

\* C2 as amended: every sample is at least the floor base_traffic * 0.1
\* before the normalization; the normalization only shrinks the samples,
\* and a final sample is at least the floor rescaled by the same ratio and
\* is above zero.
C2_FloorBeforeNormalization ==
    pc = "done" =>
        LET floor == TrafficFloor(BaseTraffic(emails_per_hour_input))
            normalized == Normalizes(total_traffic, emails_per_hour_input)
            least == IF normalized
                     THEN FMul(floor, NormalizationRatio(emails_per_hour_input,
                                                         total_traffic))
                     ELSE floor
        IN  \A i \in 1..60 :
                /\ FGe(traffic_floored[i], floor)
                /\ FLe(traffic_per_minute[i], traffic_floored[i])
                /\ FGe(traffic_per_minute[i], least)
                /\ traffic_per_minute[i].sg > 0

\* a run in which a minute was raised to the floor and then rescaled below it
C2_Witness ==
    /\ pc = "done"
    /\ Normalizes(total_traffic, emails_per_hour_input)
    /\ \E i \in 1..60 :
           /\ traffic_floored[i] = TrafficFloor(BaseTraffic(emails_per_hour_input))
           /\ FLt(traffic_per_minute[i], traffic_floored[i])

\* the tier the claim assigns to the current spike scaler, by exact
\* comparison with 1.5 and 3.0
ClaimedTier ==
    IF FCmpRat(spike_scaler, 15, 10) <= 0 THEN LowTier
    ELSE IF FCmpRat(spike_scaler, 30, 10) <= 0 THEN MediumTier
    ELSE HighTier

\* C8: spike_scaler <= 1.5 selects the low tier (period 30, amplitude 0.2),
\* 1.5 < spike_scaler <= 3.0 the medium tier (period 20, amplitude 0.5),
\* spike_scaler > 3.0 the high tier (period 15, amplitude 0.8); exactly 1.5
\* is low and exactly 3.0 is medium; the branch taken and the shape
\* computed are those of that one tier.
C8_TierBoundariesInclusive ==
    pc = "done" =>
        /\ spike_branch = ClaimedTier.name
        /\ spike_scaler = Scaler(15) => spike_branch = "low"
        /\ spike_scaler = Scaler(30) => spike_branch = "medium"
        /\ spike_branch = "low" =>
               ClaimedTier.period = 30 /\ ClaimedTier.amplitude = Dec(2, 10)
        /\ spike_branch = "medium" =>
               ClaimedTier.period = 20 /\ ClaimedTier.amplitude = Dec(5, 10)
        /\ spike_branch = "high" =>
               ClaimedTier.period = 15 /\ ClaimedTier.amplitude = Dec(8, 10)
        /\ \A i \in 1..60 : spike_factor[i] = SpikeFactor(ClaimedTier, normal_draws, i)

\* a run with the spike scaler at exactly 1.5, in the low tier
C8_Witness ==
    /\ pc = "done"
    /\ FCmpRat(spike_scaler, 15, 10) = 0
    /\ spike_branch = "low"
    /\ \A i \in 1..60 : spike_factor[i] = SpikeFactor(LowTier, normal_draws, i)

\* C10: every per-minute token demand is above zero, so the average is
\* above zero; the peak is at least the average; the average never exceeds
\* target / 60 * steps_per_session * tokens_per_step, taken as the exact
\* product or as the float tpm_raw the script computes.
C10_AverageWithinSteady ==
    pc = "done" =>
        /\ \A i \in 1..60 : tpm_per_minute[i].sg > 0
        /\ avg_tpm_traffic.sg > 0
        /\ FGe(peak_tpm_traffic, avg_tpm_traffic)
        /\ \/ FCmpRat(avg_tpm_traffic,
                      emails_per_hour_input * steps_per_session * tokens_per_step, 60) <= 0
           \/ FLe(avg_tpm_traffic, tpm_raw)

----------------------------------------------------------------------------
(***************************************************************************)
(* Claims about reruns.                                                    *)
(***************************************************************************)

\* C7: a run with the same inputs as an earlier run has the same Calculator
\* outputs, whatever the noise of either run and whatever ran in between.
C7_SameInputsSameResult ==
    (pc = "done" /\ prev_run.run = "done" /\ prev_run.widgets = Widgets)
        => prev_run.result = CapacityResult

\* two runs with the same inputs, different noise and another run in between
C7_Witness ==
    /\ pc = "done"
    /\ prev_run.run = "done"
    /\ prev_run.widgets = Widgets
    /\ prev_run.draws # normal_draws
    /\ prev_run.other_between
    /\ prev_run.result = CapacityResult

=============================================================================
